---- MODULE Spec2Model ----
(***************************************************************************)
(* xstalker: a daemon that attributes elapsed time to the category of the  *)
(* focused window and persists per-category durations in a time-windowed   *)
(* log file.  The model covers run_daemon (src/src/main.rs): startup with  *)
(* the resume / seal decision, the three event handlers of the single      *)
(* threaded loop (window change, periodic write, periodic window change),  *)
(* process kill and restart, and wall-clock adjustments between runs.      *)
(*                                                                         *)
(* Time is counted in the unit in which the store writes durations.        *)
(* Instants (monotonic) and DatabaseTime (wall clock) are integers; the    *)
(* wall clock is the monotonic clock plus `skew`.                          *)
(*                                                                         *)
(* Database, CategoryDurationCounter (mod database) and                    *)
(* ActiveWindowChanges (mod xcb_stalker) are declared in main.rs but their *)
(* files are not part of the sources; they are modelled from spec.md 4.1,  *)
(* 4.2 and 6.                                                              *)
(***************************************************************************)
EXTENDS Integers, Sequences, FiniteSets, TLC

\* ------------------------------------------------------------------ bounds
MaxTime == 4
MaxRuns == 2
MaxEvents == 4
MaxReady == 2

\* The time windows the daemon is run with (--time-window); --db-write takes
\* every value do_main accepts with them.
WindowSizes == {2, 3}

\* ------------------------------------------------------- fixed vocabulary
\* TestClassifier::categories(): make_unique of the filter names.
Categories == <<"coding", "unknown">>
NCat == Len(Categories)
\* Option<category>: 0 is None, i in 1..NCat is Some(Categories[i]).
OptCategory == 0..NCat
Header == <<"time">> \o Categories
NoFile == [exists |-> FALSE, header |-> <<>>, entries |-> <<>>]
Zeros == [i \in 1..NCat |-> 0]

RECURSIVE SumSeq(_)
SumSeq(s) == IF s = <<>> THEN 0 ELSE Head(s) + SumSeq(Tail(s))

\* ------------------------------------------- CategoryDurationCounter (4.2)
CategoryDurationCounter_new(now_instant) ==
  [durations |-> Zeros, cur |-> 0, last_update |-> now_instant]

\* The elapsed time since last_update is an unsigned Duration: with a
\* category selected, a timestamp earlier than last_update cannot be
\* accounted and the subtraction aborts the process.
can_record(dc, timestamp) == dc.cur = 0 \/ timestamp >= dc.last_update

record_current_duration(dc, timestamp) ==
  [dc EXCEPT
     !.durations = IF dc.cur = 0 THEN @
                   ELSE [@ EXCEPT ![dc.cur] = @ + (timestamp - dc.last_update)],
     !.last_update = timestamp]

category_changed(dc, category, timestamp) ==
  [record_current_duration(dc, timestamp) EXCEPT !.cur = category]

reset_durations(dc) == [dc EXCEPT !.durations = Zeros]

set_durations(dc, d) == [dc EXCEPT !.durations = d]

durations(dc) == dc.durations

\* ---------------------------------------------------------- Database (4.1)
\* The open-entry offset is counted in entry lines: entries 1..offset are
\* locked, entry offset+1 (when present) is the open one.
Database_open(file) ==
  IF file.exists
  THEN [file |-> file,
        offset |-> IF file.entries = <<>> THEN 0 ELSE Len(file.entries) - 1]
  ELSE [file |-> [exists |-> TRUE, header |-> Header, entries |-> <<>>],
        offset |-> 0]

has_last_entry(db) == Len(db.file.entries) > db.offset

get_last_entry(db) == db.file.entries[db.offset + 1]

\* io is the outcome of the write: "ok", or an I/O error that left the file
\* as it was ("err_unchanged") or cut at the offset ("err_truncated").
IoOutcomes == {"ok", "err_unchanged", "err_truncated"}

rewrite_last_entry(db, window_start, durs, io) ==
  LET kept == SubSeq(db.file.entries, 1, db.offset)
      line == [time |-> window_start, durations |-> durs]
  IN [db EXCEPT !.file.entries =
        CASE io = "ok" -> kept \o <<line>>
          [] io = "err_truncated" -> kept
          [] OTHER -> @]

lock_last_entry(db) == [db EXCEPT !.offset = Len(db.file.entries)]

\* ------------------------------------------------------------------- state
VARIABLES
  phase,              \* "down", "starting", "running", "failed"
  clock,              \* monotonic time (time::Instant)
  skew,               \* wall clock minus monotonic clock
  runs,               \* number of times the daemon was started
  time_window_size,   \* run_daemon parameter
  db_write_interval,  \* run_daemon parameter
  file,               \* the store file on disk
  offset,             \* Database: open-entry offset
  dc,                 \* CategoryDurationCounter
  window_start,       \* DatabaseTime of the current window
  now,                \* wall clock read at startup
  next_flush,         \* deadline of the write Interval
  next_rot,           \* deadline of the window change Interval
  \* history variables
  branch,             \* startup decision: "none", "new", "resume", "seal"
  ws0,                \* window_start at startup
  nrot,               \* window change ticks completed in this run
  flushed,            \* a write tick was handled in this run
  fresh,              \* the store file was created by this run
  sealed,             \* entry lines sealed in this run, in file order
  last,               \* the step just taken by the daemon (see below)
  timeline,           \* category selected during [j, j+1), per the events
  win_begin,          \* instant at which the window's accounting began
  seed,               \* durations restored at startup
  events,             \* category changes applied to a fresh counter
  error,              \* what ended the event loop, kept as the exit
                      \* status while down: "none", "io_error", "panic",
                      \* "stream"
  last_write,         \* last successful write: line count, wall clock
                      \* of its tick
  \* the event loop seen at the grain of the RefCell borrows
  pc,                 \* per closure: -1 when it is not running, else the
                      \* number of borrows it has taken so far
  cells,              \* borrow state of the RefCells: 0 free, -1 mutable,
                      \* k > 0 shared k times
  ready               \* items ready on each of the three streams

vars == <<phase, clock, skew, runs, time_window_size, db_write_interval, file,
          offset, dc, window_start, now, next_flush, next_rot, branch, ws0,
          nrot, flushed, fresh, sealed, last, timeline,
          win_begin, seed, events, error, last_write, pc, cells,
          ready>>

loop_vars == <<pc, cells, ready>>

\* What the steps of the loop at the grain of the borrows leave alone.
data_vars == <<phase, clock, skew, runs, time_window_size, db_write_interval,
               file, offset, dc, window_start, now, next_flush, next_rot,
               branch, ws0, nrot, flushed, fresh, sealed, last, timeline,
               win_begin, seed, events, last_write>>

Instants == 0..(MaxTime - 1)

\* The three closures of run_daemon and the three RefCells they share.
Handlers == {"change", "write", "rotate"}
Cells == {"db", "duration_counter", "window_start"}
NoTimeline == [j \in Instants |-> 0]

\* The handlers' view of the shared state (the three RefCells of run_daemon).
St == [db |-> [file |-> file, offset |-> offset], dc |-> dc,
       window_start |-> window_start, status |-> "ok"]

\* ------------------------------------------------------- main.rs functions
\* Variants of the functions below, each with one plausible slip; the claims
\* are checked against them to show that they depend on the code.
write_then(st, timestamp, io) ==
  IF ~can_record(st.dc, timestamp) THEN [st EXCEPT !.status = "panic"]
  ELSE LET counted == record_current_duration(st.dc, timestamp)
       IN [st EXCEPT
             !.dc = counted,
             !.db = rewrite_last_entry(st.db, st.window_start,
                                       durations(counted), io),
             !.status = IF io = "ok" THEN "ok" ELSE "io_error"]

\* the entry is not locked
change_time_window_no_lock(st, window_size, timestamp, io) ==
  LET written == write_then(st, timestamp, io)
  IN IF written.status # "ok" THEN written
     ELSE [written EXCEPT !.dc = reset_durations(@),
                          !.window_start = @ + window_size]

\* the entry is locked before the final flush instead of after it
change_time_window_lock_first(st, window_size, timestamp, io) ==
  LET written == write_then([st EXCEPT !.db = lock_last_entry(@)],
                            timestamp, io)
  IN IF written.status # "ok" THEN written
     ELSE [written EXCEPT !.dc = reset_durations(@),
                          !.window_start = @ + window_size]

\* window_start is not advanced
change_time_window_no_advance(st, window_size, timestamp, io) ==
  LET written == write_then(st, timestamp, io)
  IN IF written.status # "ok" THEN written
     ELSE [written EXCEPT !.db = lock_last_entry(@),
                          !.dc = reset_durations(@)]

\* window_start is set from the wall clock instead of the fixed increment
change_time_window_wall_clock(st, window_size, timestamp, io) ==
  LET written == write_then(st, timestamp, io)
  IN IF written.status # "ok" THEN written
     ELSE [written EXCEPT !.db = lock_last_entry(@),
                          !.dc = reset_durations(@),
                          !.window_start = clock + skew]

\* the counter is replaced by a new one instead of being reset
change_time_window_new_counter(st, window_size, timestamp, io) ==
  LET written == write_then(st, timestamp, io)
  IN IF written.status # "ok" THEN written
     ELSE [written EXCEPT !.db = lock_last_entry(@),
                          !.dc = CategoryDurationCounter_new(timestamp),
                          !.window_start = @ + window_size]

\* the result of the flush is looked at only after lock, reset and advance
change_time_window_ignore_error(st, window_size, timestamp, io) ==
  LET written == write_then(st, timestamp, io)
  IN IF written.status = "panic" THEN written
     ELSE [written EXCEPT !.db = lock_last_entry(@),
                          !.dc = reset_durations(@),
                          !.window_start = @ + window_size]

\* the durations are written without accounting the running interval
write_durations_to_disk_stale(st, timestamp, io) ==
  [st EXCEPT
     !.db = rewrite_last_entry(st.db, st.window_start, durations(st.dc), io),
     !.status = IF io = "ok" THEN "ok" ELSE "io_error"]

\* a wall clock before the start of the last entry is not told apart
in_time_window_no_lower(time, wall, window_size) ==
  wall < time + window_size

\* every write goes to a new line instead of replacing the open one
write_durations_to_disk_append(st, timestamp, io) ==
  write_then([st EXCEPT !.db = lock_last_entry(@)], timestamp, io)

\* the window of the last entry is open at its start
in_time_window_open_start(time, wall, window_size) ==
  time < wall /\ wall < time + window_size

\* the window of the last entry is closed at its end
in_time_window_closed_end(time, wall, window_size) ==
  time <= wall /\ wall <= time + window_size

\* an unclassified window (None) is ignored instead of ending the category
task_handle_window_change_skip_none(st, category, timestamp) ==
  IF category = 0 THEN st
  ELSE IF ~can_record(st.dc, timestamp) THEN [st EXCEPT !.status = "panic"]
  ELSE [st EXCEPT !.dc = category_changed(@, category, timestamp)]

\* every category change is written to the store at once
task_handle_window_change_write(st, category, timestamp) ==
  IF ~can_record(st.dc, timestamp) THEN [st EXCEPT !.status = "panic"]
  ELSE write_then([st EXCEPT !.dc = category_changed(@, category, timestamp)],
                  timestamp, "ok")

write_durations_to_disk(st, timestamp, io) ==
  IF ~can_record(st.dc, timestamp) THEN [st EXCEPT !.status = "panic"]
  ELSE LET counted == record_current_duration(st.dc, timestamp)
       IN [st EXCEPT
             !.dc = counted,
             !.db = rewrite_last_entry(st.db, st.window_start,
                                       durations(counted), io),
             !.status = IF io = "ok" THEN "ok" ELSE "io_error"]

change_time_window(st, window_size, timestamp, io) ==
  LET written == write_durations_to_disk(st, timestamp, io)
  IN IF written.status # "ok" THEN written
     ELSE [written EXCEPT
             !.db = lock_last_entry(@),
             !.dc = reset_durations(@),
             !.window_start = @ + window_size]

in_time_window(time, wall, window_size) ==
  time <= wall /\ wall < time + window_size

\* run_daemon, "Determine current time window".
current_time_window(db, counter, wall, window_size) ==
  IF has_last_entry(db)
  THEN LET entry == get_last_entry(db)
       IN IF in_time_window(entry.time, wall, window_size)
          THEN [db |-> db, dc |-> set_durations(counter, entry.durations),
                window_start |-> entry.time, branch |-> "resume"]
          ELSE [db |-> lock_last_entry(db), dc |-> counter,
                window_start |-> wall, branch |-> "seal"]
  ELSE [db |-> db, dc |-> counter, window_start |-> wall, branch |-> "new"]

\* the time already spent in the resumed window is not deducted
duration_to_next_window_change_full(window_size, wall, start) ==
  window_size

duration_to_next_window_change(window_size, wall, start) ==
  window_size - (wall - start)

task_handle_window_change(st, category, timestamp) ==
  IF ~can_record(st.dc, timestamp) THEN [st EXCEPT !.status = "panic"]
  ELSE [st EXCEPT !.dc = category_changed(@, category, timestamp)]

task_write_db(st, instant, io) == write_durations_to_disk(st, instant, io)

task_new_time_window(st, window_size, instant, io) ==
  change_time_window(st, window_size, instant, io)

\* -------------------------------------------------------------------- Init
Init ==
  /\ phase = "down"
  /\ clock = 0
  /\ skew = 0
  /\ runs = 0
  /\ time_window_size \in WindowSizes
  \* do_main: 0 < db_write < time_window
  /\ db_write_interval \in 1..(time_window_size - 1)
  /\ file = NoFile
  /\ offset = 0
  /\ dc = CategoryDurationCounter_new(0)
  /\ window_start = 0
  /\ now = 0
  /\ next_flush = 0
  /\ next_rot = 0
  /\ branch = "none"
  /\ ws0 = 0
  /\ nrot = 0
  /\ flushed = FALSE
  /\ fresh = FALSE
  /\ sealed = <<>>
  /\ last = "none"
  /\ timeline = NoTimeline
  /\ win_begin = 0
  /\ seed = Zeros
  /\ events = <<>>
  /\ error = "none"
  /\ last_write = [n |-> 0, wall |-> 0]
  /\ pc = [h \in Handlers |-> -1]
  /\ cells = [c \in Cells |-> 0]
  /\ ready = [h \in Handlers |-> 0]

\* The process is gone: only the file, the clocks and the parameters stay.
ProcessGone ==
  /\ phase' = "down"
  /\ offset' = 0
  /\ dc' = CategoryDurationCounter_new(0)
  /\ window_start' = 0
  /\ now' = 0
  /\ next_flush' = 0
  /\ next_rot' = 0
  /\ branch' = "none"
  /\ ws0' = 0
  /\ nrot' = 0
  /\ flushed' = FALSE
  /\ fresh' = FALSE
  /\ sealed' = <<>>
  /\ last' = "none"
  /\ timeline' = NoTimeline
  /\ win_begin' = 0
  /\ seed' = Zeros
  /\ UNCHANGED <<clock, skew, runs, time_window_size, db_write_interval, file,
                 events, last_write, loop_vars>>

\* What a handler leaves in the shared state; an error ends the event loop.
\* (Variant: the error of a handler is dropped and the loop goes on.)
Apply_keep_running(s) ==
  /\ phase' = "running"
  /\ file' = s.db.file
  /\ offset' = s.db.offset
  /\ dc' = s.dc
  /\ window_start' = s.window_start

Apply(s) ==
  /\ phase' = IF s.status = "ok" THEN "running" ELSE "failed"
  /\ file' = s.db.file
  /\ offset' = s.db.offset
  /\ dc' = s.dc
  /\ window_start' = s.window_start

\* The error the event loop ends with, if the handler gave one.
Failure(s) == IF s.status = "ok" THEN "none" ELSE s.status

\* The last write that succeeded: the line count it left and the wall clock
\* of its tick (the write itself happened then or later).
Written(s, instant) ==
  IF s.status = "ok"
  THEN [n |-> Len(s.db.file.entries), wall |-> instant + skew]
  ELSE last_write

AllButLast(q) == IF q = <<>> THEN <<>> ELSE SubSeq(q, 1, Len(q) - 1)

\* ----------------------------------------------------------------- actions
\* Variant of Startup: the current window is not fed to the counter.
Startup_no_initial_category(category) ==
  /\ phase = "down"
  /\ runs < MaxRuns
  /\ LET wall == clock + skew
         w == current_time_window(Database_open(file),
                                  CategoryDurationCounter_new(clock),
                                  wall, time_window_size)
     IN /\ file' = w.db.file
        /\ offset' = w.db.offset
        /\ dc' = w.dc
        /\ window_start' = w.window_start
        /\ now' = wall
        /\ branch' = w.branch
        /\ ws0' = w.window_start
        /\ seed' = durations(w.dc)
        /\ sealed' = IF w.branch = "seal" THEN file.entries
                     ELSE AllButLast(file.entries)
  /\ phase' = "starting"
  /\ runs' = runs + 1
  /\ fresh' = ~file.exists
  /\ nrot' = 0
  /\ flushed' = FALSE
  /\ last' = "start"
  /\ timeline' = [j \in Instants |-> IF j >= clock THEN category ELSE 0]
  /\ win_begin' = clock
  /\ error' = "none"
  /\ UNCHANGED <<clock, skew, time_window_size, db_write_interval,
                 next_flush, next_rot, events, last_write, loop_vars>>

\* run_daemon up to "Set initial category": open the store, decide the
\* window, feed the classified current window to the counter.
Startup(category) ==
  /\ phase = "down"
  /\ runs < MaxRuns
  /\ LET wall == clock + skew
         w == current_time_window(Database_open(file),
                                  CategoryDurationCounter_new(clock),
                                  wall, time_window_size)
     IN /\ file' = w.db.file
        /\ offset' = w.db.offset
        /\ dc' = category_changed(w.dc, category, clock)
        /\ window_start' = w.window_start
        /\ now' = wall
        /\ branch' = w.branch
        /\ ws0' = w.window_start
        /\ seed' = durations(w.dc)
        /\ sealed' = IF w.branch = "seal" THEN file.entries
                     ELSE AllButLast(file.entries)
  /\ phase' = "starting"
  /\ runs' = runs + 1
  /\ fresh' = ~file.exists
  /\ nrot' = 0
  /\ flushed' = FALSE
  /\ last' = "start"
  /\ timeline' = [j \in Instants |-> IF j >= clock THEN category ELSE 0]
  /\ win_begin' = clock
  /\ error' = "none"
  /\ UNCHANGED <<clock, skew, time_window_size, db_write_interval,
                 next_flush, next_rot, events, last_write, loop_vars>>

\* run_daemon from the creation of the two Intervals to block_on.
EnterLoop ==
  /\ phase = "starting"
  /\ phase' = "running"
  /\ next_flush' = clock + db_write_interval
  /\ next_rot' = clock + duration_to_next_window_change(time_window_size,
                                                        now, window_start)
  /\ UNCHANGED <<clock, skew, runs, time_window_size, db_write_interval, file,
                 offset, dc, window_start, now, branch, ws0, nrot, flushed,
                 fresh, sealed, last, timeline, win_begin, seed,
                 events, error,
                 last_write, loop_vars>>

\* all_category_changes: a focus change, stamped when it is read.
WindowChange(category) ==
  /\ phase = "running"
  /\ LET s == task_handle_window_change(St, category, clock)
     IN /\ Apply(s)
        /\ error' = Failure(s)
        /\ timeline' = IF s.status = "ok"
                       THEN [j \in Instants |->
                               IF j >= clock THEN category ELSE timeline[j]]
                       ELSE timeline
  /\ last' = "change"
  /\ UNCHANGED <<clock, skew, runs, time_window_size, db_write_interval, now,
                 next_flush, next_rot, branch, ws0, nrot, flushed, fresh,
                 sealed, win_begin, seed, events, last_write, loop_vars>>

\* all_db_writes: the Interval yields its deadline as the instant, one
\* deadline per call of the closure, every missed deadline in turn.  join3
\* polls this stream before all_time_window_changes, so a due write tick can
\* be handled whatever the deadline of a due window change tick.
FlushTick(io) ==
  /\ phase = "running"
  /\ next_flush <= clock
  /\ LET s == task_write_db(St, next_flush, io)
     IN /\ Apply(s)
        /\ error' = Failure(s)
        /\ last_write' = Written(s, next_flush)
        \* "rotation_flush": the window change tick with this same instant
        \* was handled just before this write tick.
        /\ last' = IF /\ last = "rotation"
                      /\ next_rot - time_window_size = next_flush
                   THEN "rotation_flush" ELSE "flush"
  /\ next_flush' = next_flush + db_write_interval
  /\ flushed' = TRUE
  /\ UNCHANGED <<clock, skew, runs, time_window_size, db_write_interval, now,
                 next_rot, branch, ws0, nrot, fresh, sealed, timeline,
                 win_begin, seed, events, loop_vars>>

\* all_time_window_changes.  The stream is polled last in a pass of join3,
\* after all_db_writes has handled every write tick whose timer had fired:
\* a window change tick is handled once no write tick with an earlier
\* deadline is left.  Two deadlines equal to the grain of the clock fire in
\* either order.
RotationTick(io) ==
  /\ phase = "running"
  /\ next_rot <= clock
  /\ next_rot <= next_flush
  /\ LET s == task_new_time_window(St, time_window_size, next_rot, io)
         done == s.status = "ok"
     IN /\ Apply(s)
        /\ error' = Failure(s)
        /\ last_write' = Written(s, next_rot)
        \* "flush_rotation": the write tick with this same instant was
        \* handled just before this window change tick.
        /\ last' = IF /\ last = "flush"
                      /\ next_flush - db_write_interval = next_rot
                   THEN "flush_rotation" ELSE "rotation"
        /\ nrot' = IF done THEN nrot + 1 ELSE nrot
        /\ sealed' = IF done THEN s.db.file.entries ELSE sealed
        /\ win_begin' = IF done THEN next_rot ELSE win_begin
        /\ seed' = IF done THEN Zeros ELSE seed
        /\ timeline' = IF done
                       THEN [j \in Instants |->
                               IF j >= next_rot THEN timeline[j] ELSE 0]
                       ELSE timeline
  /\ next_rot' = next_rot + time_window_size
  /\ UNCHANGED <<clock, skew, runs, time_window_size, db_write_interval, now,
                 next_flush, branch, ws0, flushed, fresh, events, loop_vars>>

\* One of the three streams ends with an error that is no write failure:
\* the window listener fails, the classifier fails on a focus change, a
\* timer fails.  No handler has run; run_daemon returns the error and the
\* process exits with it.
SourceError ==
  /\ phase = "running"
  /\ error' = "stream"
  /\ ProcessGone

\* Time passes while the daemon is up, whatever is due: classify and the
\* store write block the one thread, and any number of deadlines can pass
\* before the loop handles them.  Time that passes while the daemon is down
\* shows only in the wall clock (ClockAdjust).
Advance ==
  /\ clock < MaxTime
  /\ phase \in {"starting", "running"}
  /\ clock' = clock + 1
  /\ UNCHANGED <<phase, skew, runs, time_window_size, db_write_interval, file,
                 offset, dc, window_start, now, next_flush, next_rot, branch,
                 ws0, nrot, flushed, fresh, sealed, last,
                 timeline, win_begin, seed, events, error,
                 last_write, loop_vars>>

\* The process is killed between two handlers (no signal handling).
Kill ==
  /\ phase \in {"starting", "running"}
  /\ error' = "none"
  /\ ProcessGone

\* run_daemon returned the error, or the panic unwound: the process exits.
Exit ==
  /\ phase = "failed"
  /\ error' = error
  /\ ProcessGone

\* Between two runs the wall clock moves against the monotonic clock: time
\* spent down, or the system clock being set, by a window size forward or
\* backward of the first run's clock.
ClockAdjust ==
  /\ phase = "down"
  /\ runs >= 1
  /\ \E k \in {-time_window_size, 0, time_window_size} :
       k # skew /\ skew' = k
  /\ UNCHANGED <<phase, clock, runs, time_window_size, db_write_interval, file,
                 offset, dc, window_start, now, next_flush, next_rot, branch,
                 ws0, nrot, flushed, fresh, sealed, last,
                 timeline, win_begin, seed, events, error,
                 last_write, loop_vars>>

Next ==
  \/ \E category \in OptCategory : Startup(category)
  \/ EnterLoop
  \/ \E category \in OptCategory : WindowChange(category)
  \/ \E io \in IoOutcomes : FlushTick(io)
  \/ \E io \in IoOutcomes : RotationTick(io)
  \/ SourceError
  \/ Advance
  \/ Kill
  \/ Exit
  \/ ClockAdjust

Spec == Init /\ [][Next]_vars

\* ------------------------------------------- the counter on its own (C5)
\* Category changes with non-decreasing timestamps applied, through the
\* window change handler, to the counter as created (no reset, no restore).
AccInit == Init /\ time_window_size = 2

AccEvent(category, timestamp) ==
  /\ Len(events) < MaxEvents
  /\ events # <<>> => timestamp >= events[Len(events)].ts
  /\ dc' = task_handle_window_change(St, category, timestamp).dc
  /\ events' = Append(events, [category |-> category, ts |-> timestamp])
  /\ UNCHANGED <<phase, clock, skew, runs, time_window_size,
                 db_write_interval, file, offset, window_start, now,
                 next_flush, next_rot, branch, ws0, nrot, flushed, fresh,
                 sealed, last, timeline, win_begin, seed, error, last_write,
                 loop_vars>>

AccNext == \E category \in OptCategory, timestamp \in 0..MaxTime :
             AccEvent(category, timestamp)

AccSpec == AccInit /\ [][AccNext]_vars

\* ------------------------------------- the event loop and the RefCells (C14)
\* The borrows a closure takes, in the order of its argument list; they are
\* temporaries of the call statement and live until it is over.
Borrows(h) ==
  CASE h = "change" -> <<[cell |-> "duration_counter", mut |-> TRUE]>>
    [] h = "write" -> <<[cell |-> "db", mut |-> TRUE],
                        [cell |-> "duration_counter", mut |-> TRUE],
                        [cell |-> "window_start", mut |-> FALSE]>>
    [] h = "rotate" -> <<[cell |-> "db", mut |-> TRUE],
                         [cell |-> "duration_counter", mut |-> TRUE],
                         [cell |-> "window_start", mut |-> TRUE]>>

\* RefCell: borrow_mut needs a free cell, borrow a cell not mutably borrowed.
can_borrow(n, mut) == IF mut THEN n = 0 ELSE n >= 0
borrow(n, mut) == IF mut THEN -1 ELSE n + 1
drop_borrow(n, mut) == IF mut THEN 0 ELSE n - 1

\* The guards of the closure h are dropped at the end of its call.
drop_borrows(cs, h) ==
  [c \in Cells |->
     IF \E i \in 1..Len(Borrows(h)) : Borrows(h)[i].cell = c
     THEN LET i == CHOOSE i \in 1..Len(Borrows(h)) : Borrows(h)[i].cell = c
          IN drop_borrow(cs[c], Borrows(h)[i].mut)
     ELSE cs[c]]

LoopInit == Init /\ time_window_size = 2

\* An item becomes ready on a stream (a focus change, a timer deadline).
ItemReady(h) ==
  /\ ready[h] < MaxReady
  /\ ready' = [ready EXCEPT ![h] = @ + 1]
  /\ UNCHANGED <<pc, cells, error, data_vars>>

\* a closure is entered while another one is running
Dispatch_nested(h) ==
  /\ error = "none"
  /\ ready[h] > 0
  /\ pc[h] = -1
  /\ pc' = [pc EXCEPT ![h] = 0]
  /\ ready' = [ready EXCEPT ![h] = @ - 1]
  /\ UNCHANGED <<cells, error, data_vars>>

\* join3 on the current_thread runtime: the one thread polls the three
\* for_each streams in turn, and a closure is called on a ready item only
\* when the previous call has returned.
Dispatch(h) ==
  /\ error = "none"
  /\ ready[h] > 0
  /\ \A g \in Handlers : pc[g] = -1
  /\ pc' = [pc EXCEPT ![h] = 0]
  /\ ready' = [ready EXCEPT ![h] = @ - 1]
  /\ UNCHANGED <<cells, error, data_vars>>

\* The running closure takes its next borrow; a conflicting borrow panics.
TakeBorrow(h) ==
  /\ error = "none"
  /\ pc[h] >= 0
  /\ pc[h] < Len(Borrows(h))
  /\ LET b == Borrows(h)[pc[h] + 1]
     IN IF can_borrow(cells[b.cell], b.mut)
        THEN /\ cells' = [cells EXCEPT ![b.cell] = borrow(@, b.mut)]
             /\ pc' = [pc EXCEPT ![h] = @ + 1]
             /\ UNCHANGED error
        ELSE /\ error' = "panic"
             /\ UNCHANGED <<cells, pc>>
  /\ UNCHANGED <<ready, data_vars>>

\* The call is over: the closure returns and its guards are dropped.
Return(h) ==
  /\ error = "none"
  /\ pc[h] = Len(Borrows(h))
  /\ cells' = drop_borrows(cells, h)
  /\ pc' = [pc EXCEPT ![h] = -1]
  /\ UNCHANGED <<ready, error, data_vars>>

LoopNext ==
  \/ \E h \in Handlers : ItemReady(h)
  \/ \E h \in Handlers : Dispatch(h)
  \/ \E h \in Handlers : TakeBorrow(h)
  \/ \E h \in Handlers : Return(h)

LoopSpec == LoopInit /\ [][LoopNext]_vars

\* ======================================================== the properties
IsPrefix(p, q) == Len(p) <= Len(q) /\ SubSeq(q, 1, Len(p)) = p

Entries == file.entries
NEntries == Len(file.entries)
Up == phase \in {"starting", "running"}
StartupStep == phase = "down" /\ phase' = "starting"
LastOnDisk == file.entries[Len(file.entries)]

\* ---------------------------------------------------------------- C1
\* C1: resume law.  When the daemon starts on a store whose last entry
\* (T0, D) has T0 <= now < T0 + W, the run's window_start is T0, the counter
\* holds D before any event is processed, the file is left as it is and that
\* last entry stays the open one: as long as the run has not changed window,
\* a write replaces that line and adds none.
C1_ResumeStep ==
  (/\ StartupStep
   /\ Entries # <<>>
   /\ LastOnDisk.time <= now'
   /\ now' < LastOnDisk.time + time_window_size)
  => /\ window_start' = LastOnDisk.time
     /\ durations(dc') = LastOnDisk.durations
     /\ offset' = NEntries - 1
     /\ file' = file

C1_ResumeKeepsLine ==
  (Up /\ branch = "resume" /\ nrot = 0)
  => /\ offset = Len(sealed)
     /\ NEntries = offset + 1
     /\ LastOnDisk.time = window_start

C1_ResumeLaw == [][C1_ResumeStep]_vars /\ []C1_ResumeKeepsLine

C1_Witness ==
  /\ phase = "running"
  /\ branch = "resume"
  /\ last = "flush"
  /\ now > window_start
  /\ SumSeq(seed) > 0
  /\ SumSeq(LastOnDisk.durations) > SumSeq(seed)

\* ---------------------------------------------------------------- C2
\* C2: startup on a stale entry.  When the last entry (T0, D) has now < T0
\* or now >= T0 + W, startup locks it, starts the window at now with all
\* durations zero, and no later step of the run changes that line.  With no
\* entry in the store, the window starts at now and nothing is locked.
C2_StaleStep ==
  (/\ StartupStep
   /\ Entries # <<>>
   /\ (now' < LastOnDisk.time \/ now' >= LastOnDisk.time + time_window_size))
  => /\ window_start' = now'
     /\ durations(dc') = Zeros
     /\ offset' = NEntries
     /\ file' = file

C2_EmptyStep ==
  (StartupStep /\ Entries = <<>>)
  => /\ window_start' = now'
     /\ durations(dc') = Zeros
     /\ offset' = 0
     /\ file'.entries = <<>>

C2_StaleLineKept ==
  (phase \in {"starting", "running", "failed"} /\ branch = "seal")
  => /\ Len(sealed) >= 1
     /\ IsPrefix(sealed, Entries)
     /\ offset >= Len(sealed)

C2_StaleStartup ==
  [][C2_StaleStep /\ C2_EmptyStep]_vars /\ []C2_StaleLineKept

C2_Witness ==
  /\ phase = "running"
  /\ branch = "seal"
  /\ nrot = 1
  /\ last = "flush"
  /\ NEntries = 3
  /\ now < Entries[1].time

\* ---------------------------------------------------------------- C5
RECURSIVE NoneTime(_)
\* Time during which no category was selected, from the events alone.
NoneTime(ev) ==
  IF Len(ev) < 2 THEN 0
  ELSE (IF ev[1].category = 0 THEN ev[2].ts - ev[1].ts ELSE 0)
       + NoneTime(Tail(ev))

Elapsed(ev) == ev[Len(ev)].ts - ev[1].ts

\* C5 as stated: the durations sum to the time between the first and the
\* last event.
C5_Original ==
  events # <<>> => SumSeq(durations(dc)) = Elapsed(events)

\* C5: conservation.  The durations sum to the time between the first and
\* the last event less the time during which the classifier gave no
\* category; with a category on every event they sum to the elapsed time.
C5_Conservation ==
  events # <<>>
  => /\ SumSeq(durations(dc)) = Elapsed(events) - NoneTime(events)
     /\ (\A i \in 1..Len(events) : events[i].category # 0)
          => SumSeq(durations(dc)) = Elapsed(events)

C5_Witness ==
  /\ Len(events) >= 3
  /\ NoneTime(events) > 0
  /\ SumSeq(durations(dc)) > 0
  /\ durations(dc)[1] > 0
  /\ durations(dc)[2] > 0

\* ---------------------------------------------------------------- C3
AfterRotation == phase = "running" /\ last \in {"rotation", "flush_rotation"}

\* C3 as stated: once the rotation tick is handled, the store shows the
\* prior window's entry followed by a new entry at the new window_start with
\* all durations zero.
C3_Original ==
  AfterRotation
  => /\ NEntries >= 2
     /\ Entries[NEntries] = [time |-> window_start, durations |-> Zeros]
     /\ Entries[NEntries - 1].time = window_start - time_window_size

\* C3: rotation law.  Once the rotation tick is handled, the last line of
\* the store is the prior window's entry, locked; the store holds no line
\* for the new window, the counter's durations are all zero and window_start
\* is one window size later.  The new window's line, with start
\* window_start, is added by the next write, after the locked one.
C3_RotationLaw ==
  (phase = "running" /\ nrot >= 1)
  => /\ offset >= 1
     /\ Entries[offset].time = window_start - time_window_size
     /\ NEntries \in {offset, offset + 1}
     /\ NEntries = offset + 1 => Entries[NEntries].time = window_start
     /\ AfterRotation => NEntries = offset /\ durations(dc) = Zeros

C3_Witness ==
  /\ AfterRotation
  /\ NEntries = offset
  /\ Entries[offset].durations[1] > 0
  /\ Entries[offset].durations[2] > 0
  /\ dc.cur # 0

\* ---------------------------------------------------------------- C4
Coincident == phase = "running" /\ last \in {"flush_rotation", "rotation_flush"}

\* C4 as stated: after a flush tick and a rotation tick with the same instant
\* are handled, in either order, the file ends with the sealed entry of the
\* old window followed by an entry of the new window with all durations zero.
C4_Original ==
  Coincident
  => /\ NEntries >= 2
     /\ offset = NEntries - 1
     /\ Entries[offset].time = window_start - time_window_size
     /\ Entries[NEntries] = [time |-> window_start, durations |-> Zeros]

\* C4: coincident ticks.  In either order the old window's entry ends up
\* sealed, with start window_start - W.  Rotation first: the flush then adds
\* the new window's entry with all durations zero.  Flush first: the sealed
\* entry is the last line and the new window has no entry yet.
C4_CoincidentTicks ==
  /\ (phase = "running" /\ last = "rotation_flush")
     => /\ NEntries >= 2
        /\ offset = NEntries - 1
        /\ Entries[offset].time = window_start - time_window_size
        /\ Entries[NEntries] = [time |-> window_start, durations |-> Zeros]
  /\ (phase = "running" /\ last = "flush_rotation")
     => /\ NEntries >= 1
        /\ offset = NEntries
        /\ Entries[offset].time = window_start - time_window_size
        /\ durations(dc) = Zeros

C4_Witness ==
  /\ phase = "running"
  /\ last = "rotation_flush"
  /\ SumSeq(Entries[offset].durations) > 0
  /\ dc.cur # 0

\* ---------------------------------------------------------------- C6
\* C6: locked entries are immutable.  The lines sealed in this run (by the
\* startup decision or by a rotation tick) are never changed or removed by a
\* later step of the run, and every write goes after them.
C6_SealedStep ==
  Up => \A i \in 1..Len(sealed) :
          i <= Len(file'.entries) /\ file'.entries[i] = sealed[i]

C6_WritesAfter ==
  phase \in {"starting", "running", "failed"}
  => IsPrefix(sealed, Entries) /\ offset >= Len(sealed)

C6_LockedImmutable == [][C6_SealedStep]_vars /\ []C6_WritesAfter

C6_Witness ==
  /\ phase = "running"
  /\ branch = "seal"
  /\ nrot >= 1
  /\ last = "change"
  /\ Len(sealed) >= 2
  /\ NEntries = Len(sealed) + 1

\* ---------------------------------------------------------------- C7
\* C7 as stated: the file has exactly one open entry, its last line.
C7_Original == Up => NEntries = offset + 1

\* C7: at most one entry is open.  Every line but possibly the last is
\* locked; an open entry, when there is one, is the last line and is the
\* entry of the current window.  There is none on a fresh store, after a
\* stale entry was sealed at startup and after a rotation, until the next
\* write.
C7_AtMostOneOpen ==
  Up => /\ offset <= NEntries
        /\ NEntries <= offset + 1
        /\ NEntries = offset + 1 => Entries[NEntries].time = window_start

C7_Witness ==
  /\ phase = "running"
  /\ nrot >= 1
  /\ offset >= 2
  /\ NEntries = offset + 1

\* ---------------------------------------------------------------- C8
\* C8: grid alignment.  After k rotation ticks window_start is its startup
\* value plus k * W, and no other step of the run changes window_start.
C8_Grid == Up => window_start = ws0 + nrot * time_window_size

C8_OnlyRotation ==
  (Up /\ phase' \in {"running", "failed"} /\ nrot' = nrot)
  => window_start' = window_start

C8_GridAlignment == []C8_Grid /\ [][C8_OnlyRotation]_vars

C8_Witness ==
  /\ phase = "running"
  /\ nrot = 2
  /\ last = "change"
  /\ flushed
  /\ window_start = ws0 + 2 * time_window_size

\* ---------------------------------------------------------------- C9
\* Time during which category c was selected in [from, to), read from the
\* category changes alone.
SelectedTime(c, from, to) ==
  Cardinality({j \in Instants : from <= j /\ j < to /\ timeline[j] = c})

LastFlushInstant == next_flush - db_write_interval

\* C9: a flush tick at t writes (window_start, d) with d[c] the restored
\* value plus the time c was selected from the start of the window's
\* accounting to t.
C9_FlushTotals ==
  (phase = "running" /\ last \in {"flush", "rotation_flush"})
  => /\ NEntries = offset + 1
     /\ Entries[NEntries] =
          [time |-> window_start,
           durations |-> [c \in 1..NCat |->
              seed[c] + SelectedTime(c, win_begin, LastFlushInstant)]]

\* ---------------------------------------------------------------- C10
\* C10: fresh store.  A run that created the store file leaves it with the
\* header line and no entry line until its first flush tick is handled.
C10_FreshStore ==
  (phase \in {"starting", "running", "failed"} /\ fresh /\ ~flushed)
  => /\ file.exists
     /\ file.header = Header
     /\ Entries = <<>>

C10_Witness ==
  /\ phase = "running"
  /\ fresh
  /\ ~flushed
  /\ last = "change"
  /\ clock >= next_flush
  /\ Entries = <<>>


\* ---------------------------------------------------------------- C11
\* C11: fail-stop.  While the daemon runs no error has occurred.  An error
\* of a stream (listener, classifier, timer) ends the process in the same
\* step, with that error.  A handler that fails (a write failure in a flush or a rotation
\* tick) leaves the daemon failed with its error: from then on no handler
\* runs, the file is not written again and the only step left is the
\* process exit, with that error.
C11_Stopped ==
  /\ Up => error = "none"
  /\ phase = "failed" => error \in {"io_error", "panic"}
  /\ error = "stream" => phase = "down"

C11_ErrorStep ==
  (phase = "running" /\ error' # "none")
  => /\ phase' \in {"failed", "down"}
     /\ phase' = "down" => error' = "stream" /\ file' = file

C11_NothingAfter ==
  phase = "failed" => /\ phase' = "down"
                      /\ error' = error
                      /\ file' = file
                      /\ clock' = clock

C11_FailStop ==
  []C11_Stopped /\ [][C11_ErrorStep /\ C11_NothingAfter]_vars

\* the write of a rotation tick failed while a flush tick was due
C11_Witness ==
  /\ phase = "failed"
  /\ error = "io_error"
  /\ last \in {"rotation", "flush_rotation"}
  /\ next_flush <= clock
  /\ nrot = 0


\* ---------------------------------------------------------------- C12
\* Time category c was selected since the window's accounting began, up to
\* the counter's last update, read from the focus changes alone.  With no
\* category selected every later instant adds nothing.
Accounted(c) ==
  seed[c] + SelectedTime(c, win_begin,
                         IF dc.cur = 0 THEN MaxTime ELSE dc.last_update)

\* C12: initial category.  Startup, once the window is decided, selects the
\* category of the current window at the startup timestamp and adds nothing
\* to the durations; no event is handled before the loop is entered; and a
\* flush before any rotation writes, for each category, the restored value
\* plus the time it was selected since startup, the initial category's time
\* up to the first focus change included.
C12_StartupStep ==
  StartupStep
  => /\ branch' \in {"new", "resume", "seal"}
     /\ dc'.last_update = clock
     /\ durations(dc') = seed'
     /\ clock \in Instants => dc'.cur = timeline'[clock]

C12_BeforeLoop ==
  phase = "starting"
  => \/ phase' = "down"
     \/ /\ file' = file
        /\ dc' = dc
        /\ window_start' = window_start
        /\ offset' = offset

C12_FirstFlush ==
  (phase = "running" /\ nrot = 0 /\ last = "flush")
  => /\ NEntries = offset + 1
     /\ Entries[NEntries] = [time |-> window_start,
                             durations |-> [c \in 1..NCat |-> Accounted(c)]]

C12_InitialCategory ==
  [][C12_StartupStep /\ C12_BeforeLoop]_vars /\ []C12_FirstFlush

\* started on "coding", focus moved to "unknown", then the first flush
C12_Witness ==
  /\ phase = "running"
  /\ nrot = 0
  /\ last = "flush"
  /\ timeline[win_begin] = 1
  /\ dc.cur = 2
  /\ LastOnDisk.durations[1] > seed[1]
  /\ LastOnDisk.durations[2] > seed[2]


\* ---------------------------------------------------------------- C13
\* The last line of the file is the one the last successful write left.
LastLineWritten == NEntries > 0 /\ last_write.n = NEntries

\* The wall clock read at startup is earlier than the wall clock of the tick
\* that last wrote the last entry, hence earlier than that write.
BackwardSinceWrite == LastLineWritten /\ now < last_write.wall

\* C13 as stated: a restart whose wall clock is outside the window of the
\* open entry, or has gone backward since that entry was last written,
\* seals the entry and starts a window at now.
C13_Original ==
  (/\ phase = "starting"
   /\ NEntries > 0
   /\ \/ BackwardSinceWrite
      \/ now < LastOnDisk.time
      \/ now >= LastOnDisk.time + time_window_size)
  => branch = "seal" /\ window_start = now

\* C13: clock anomaly at restart.  A restart whose wall clock is before the
\* start T0 of the open entry, or at or after T0 + W, seals the entry and
\* starts a window at now with zero durations.  A restart with
\* T0 <= now < T0 + W resumes the entry with the durations last written,
\* also when the wall clock has gone backward since that write.
C13_RestartStep ==
  (StartupStep /\ Entries # <<>>)
  => /\ now' < LastOnDisk.time
          => /\ branch' = "seal"
             /\ window_start' = now'
             /\ sealed' = Entries
             /\ seed' = Zeros
     /\ now' >= LastOnDisk.time + time_window_size
          => /\ branch' = "seal"
             /\ window_start' = now'
             /\ sealed' = Entries
             /\ seed' = Zeros
     /\ (LastOnDisk.time <= now'
         /\ now' < LastOnDisk.time + time_window_size)
          => /\ branch' = "resume"
             /\ sealed' = AllButLast(Entries)
             /\ seed' = LastOnDisk.durations
             /\ durations(dc') = LastOnDisk.durations

C13_ClockAnomaly == [][C13_RestartStep]_vars

\* the entry is resumed at a wall clock earlier than its last write
C13_Witness ==
  /\ phase = "starting"
  /\ branch = "resume"
  /\ BackwardSinceWrite
  /\ SumSeq(seed) > 0


\* ---------------------------------------------------------------- C14
Running(h) == pc[h] >= 0

\* The closure h holds a borrow of the cell c.
Holds(h, c) ==
  /\ Running(h)
  /\ \E i \in 1..pc[h] : Borrows(h)[i].cell = c

\* C14: structural mutual exclusion.  At most one closure runs at a time; no
\* borrow_mut or borrow ever finds its cell borrowed (no borrow panic); a
\* borrowed cell is borrowed once, by the running closure; and a closure is
\* entered only with every cell free.
C14_OneHandler == Cardinality({h \in Handlers : Running(h)}) <= 1

C14_NoConflict ==
  /\ error = "none"
  /\ \A c \in Cells :
       /\ cells[c] \in {-1, 0, 1}
       /\ cells[c] # 0 <=> \E h \in Handlers : Holds(h, c)

C14_EnterFree ==
  \A h \in Handlers :
    (~Running(h) /\ Running(h)')
    => /\ \A c \in Cells : cells[c] = 0
       /\ \A g \in Handlers : ~Running(g)

C14_MutualExclusion ==
  [](C14_OneHandler /\ C14_NoConflict) /\ [][C14_EnterFree]_vars

\* the rotation closure holds the three cells while items wait on the
\* other two streams
C14_Witness ==
  /\ pc["rotate"] = 3
  /\ \A c \in Cells : cells[c] = -1
  /\ ready["change"] > 0
  /\ ready["write"] > 0


\* ---------------------------------------------------------------- C15
\* C15: first rotation delay.  In every startup branch the wall clock read
\* at startup is at or after window_start and less than W after it; the
\* first rotation tick is due W - (now - window_start) after the timers are
\* created, which is more than 0 and at most W; every rotation tick handled
\* was due, and the next one is due W after it.
C15_Elapsed ==
  Up => /\ now - ws0 >= 0
        /\ now - ws0 < time_window_size
        /\ branch \in {"new", "seal"} => now = ws0

C15_FirstDelay ==
  (phase = "starting" /\ phase' = "running")
  => /\ next_rot' - clock = time_window_size - (now - ws0)
     /\ next_rot' - clock > 0
     /\ next_rot' - clock <= time_window_size

C15_Period ==
  (/\ phase = "running"
   /\ next_rot' # next_rot
   /\ last' \in {"rotation", "flush_rotation"})
  => /\ next_rot <= clock
     /\ next_rot' = next_rot + time_window_size

C15_RotationDelay ==
  []C15_Elapsed /\ [][C15_FirstDelay /\ C15_Period]_vars

\* a resumed window, part of it already spent, has had its first rotation
C15_Witness ==
  /\ phase = "running"
  /\ branch = "resume"
  /\ now > ws0
  /\ nrot = 1
  /\ last = "rotation"


\* ---------------------------------------------------------------- C16
\* C16: rotation keeps time in flight.  A rotation tick at t seals the entry
\* with the time up to t added to the selected category, zeroes the
\* durations and leaves the selected category, with last_update = t.  With a
\* category c selected and no category change in between, the next flush,
\* at t' >= t, writes the new window's entry with d[c] = t' - t and every
\* other duration zero.
C16_RotationStep ==
  (phase = "running" /\ nrot' = nrot + 1)
  => /\ dc'.cur = dc.cur
     /\ dc'.last_update = next_rot
     /\ durations(dc') = Zeros
     /\ offset' >= 1
     /\ file'.entries[offset'] =
          [time |-> window_start,
           durations |-> [c \in 1..NCat |->
              durations(dc)[c]
              + (IF c = dc.cur THEN next_rot - dc.last_update ELSE 0)]]

C16_NextFlush ==
  (/\ phase = "running"
   /\ last \in {"rotation", "flush_rotation"}
   /\ dc.cur # 0
   /\ phase' = "running"
   /\ last' \in {"flush", "rotation_flush"})
  => /\ next_flush >= next_rot - time_window_size
     /\ Len(file'.entries) = offset + 1
     /\ file'.entries[offset + 1] =
          [time |-> window_start,
           durations |-> [c \in 1..NCat |->
              IF c = dc.cur
              THEN next_flush - (next_rot - time_window_size) ELSE 0]]

C16_TimeInFlight == [][C16_RotationStep /\ C16_NextFlush]_vars

\* "coding" selected across the rotation: time in the sealed entry, and the
\* time since the rotation in the new one
C16_Witness ==
  /\ phase = "running"
  /\ nrot = 1
  /\ last = "flush"
  /\ dc.cur = 1
  /\ \A j \in Instants : j >= win_begin => timeline[j] = 1
  /\ NEntries = offset + 1
  /\ Entries[offset].durations[1] > 0
  /\ LastOnDisk.durations[1] > 0
  /\ LastOnDisk.durations[1] = LastFlushInstant - win_begin
  /\ LastOnDisk.durations[2] = 0


\* ---------------------------------------------------------------- C17
\* C17: one line per window.  A step of the running daemon adds at most one
\* line, and only when no line is open (the first write after a lock or on a
\* store with no open entry), with the current window_start; a step that
\* does not lock leaves at most one line after the locked ones and the
\* locked ones as they were; a successful flush leaves exactly one.  The
\* windows of the run have one line each, on the grid from the run's first
\* window_start.
C17_WriteStep ==
  phase = "running"
  => /\ Len(file'.entries) <= NEntries + 1
     /\ Len(file'.entries) = NEntries + 1
          => /\ NEntries = offset
             /\ file'.entries[NEntries + 1].time = window_start
     /\ (offset' = offset /\ phase' # "down")
          => /\ Len(file'.entries) <= offset + 1
             /\ SubSeq(file'.entries, 1, offset) = SubSeq(Entries, 1, offset)
     /\ (phase' = "running" /\ last' \in {"flush", "rotation_flush"}
         /\ next_flush' # next_flush)
          => Len(file'.entries) = offset + 1

C17_LinePerWindow ==
  Up => /\ offset >= nrot
        /\ \A i \in 1..NEntries :
             i > offset - nrot
             => Entries[i].time
                  = ws0 + (i - (offset - nrot) - 1) * time_window_size

C17_OneLinePerWindow == [][C17_WriteStep]_vars /\ []C17_LinePerWindow

\* the second window of the run, flushed twice, has one line
C17_Witness ==
  /\ phase = "running"
  /\ nrot = 1
  /\ last = "flush"
  /\ db_write_interval = 1
  /\ offset = 1
  /\ NEntries = 2
  /\ SumSeq(LastOnDisk.durations) >= 2


\* ---------------------------------------------------------------- C18
\* A handler has run in this step (the step is not a stream error).
HandlerStep ==
  /\ phase = "running"
  /\ phase' \in {"running", "failed"}
  /\ error' \in {"none", "io_error", "panic"}

\* C18: rotation stops at a failed flush.  When the write of a rotation tick
\* fails the entry is not locked, window_start is not advanced and the
\* durations, with the time up to the tick accounted, are not reset.  The
\* offset, window_start and the rotation count change only together, in a
\* step that wrote the entry of the window, locked it, zeroed the durations
\* and advanced window_start by W without error.
C18_FailedRotation ==
  (HandlerStep /\ phase' = "failed" /\ next_rot' # next_rot)
  => /\ offset' = offset
     /\ window_start' = window_start
     /\ nrot' = nrot
     /\ dc'.cur = dc.cur
     /\ error' = "io_error"
          => durations(dc') =
               [c \in 1..NCat |->
                  durations(dc)[c]
                  + (IF c = dc.cur THEN next_rot - dc.last_update ELSE 0)]
     /\ error' = "panic" => dc' = dc /\ file' = file

C18_Together ==
  (/\ HandlerStep
   /\ (offset' # offset \/ window_start' # window_start \/ nrot' # nrot))
  => /\ phase' = "running"
     /\ error' = "none"
     /\ nrot' = nrot + 1
     /\ offset' = offset + 1
     /\ offset' = Len(file'.entries)
     /\ file'.entries[offset'].time = window_start
     /\ window_start' = window_start + time_window_size
     /\ durations(dc') = Zeros

C18_RotationStops == [][C18_FailedRotation /\ C18_Together]_vars

\* the write of a rotation tick failed: the open line and the window are
\* as before, and the counter holds time that is not on disk
C18_Witness ==
  /\ phase = "failed"
  /\ error = "io_error"
  /\ last \in {"rotation", "flush_rotation"}
  /\ window_start = ws0
  /\ NEntries = offset + 1
  /\ LastOnDisk.time = window_start
  /\ SumSeq(durations(dc)) > SumSeq(LastOnDisk.durations)


\* ---------------------------------------------------------------- C19
\* C19: monotonic accounting across sources.  The timestamp a handler
\* passes to the counter is at or after the counter's last_update (the
\* counter is never asked for a negative interval, which it cannot
\* account), and between two rotations no duration of the open line
\* decreases.
C19_TimestampStep ==
  HandlerStep
  => /\ error' # "panic"
     /\ dc'.last_update >= dc.last_update

C19_DurationsStep ==
  (/\ HandlerStep
   /\ offset' = offset
   /\ NEntries = offset + 1
   /\ Len(file'.entries) = offset + 1)
  => \A c \in 1..NCat :
       /\ file'.entries[offset + 1].durations[c] >= 0
       /\ file'.entries[offset + 1].durations[c] >= LastOnDisk.durations[c]

C19_Monotonic == [][C19_TimestampStep /\ C19_DurationsStep]_vars


\* ---------------------------------------------------------------- C20
\* C20: window capacity.  In every entry of the store the durations sum to
\* at most the window size.
C20_Capacity ==
  \A i \in 1..NEntries : SumSeq(Entries[i].durations) <= time_window_size

====
